---- MODULE Spec2Model ----
(***************************************************************************)
(* Model of src/reinsurance.py: the Monte Carlo reinsurance risk engine.   *)
(*                                                                         *)
(* Amounts (claim sizes, retentions, premiums, mean, std) are integers in  *)
(* one common unit.  Every metric is an exact rational [num, den]; a       *)
(* rational with den = 0 stands for the IEEE value nan.  Amounts that are  *)
(* nan are the integer NaN.  The random source is a nondeterministic       *)
(* choice over the support of the distribution numpy draws from.           *)
(***************************************************************************)
EXTENDS Integers, Sequences, FiniteSets, TLC

VARIABLES
    CLAIM_PROB,        \* module constant, in percent (line 46)
    RETENTIONS,        \* module constant, a sequence of retention levels (line 50)
    PREMIUMS,          \* module constant, a function retention -> premium (line 53)
    MEAN,              \* module constant (line 56)
    STD,               \* module constant (line 57)
    pc,                \* position of the single thread of control
    scenario,          \* 1: the "Current Year" call, 2: the inflation call
    mean,              \* run_engine's argument
    std,               \* run_engine's argument
    mu,                \* local of run_engine (line 110)
    sigma,             \* local of run_engine (line 110)
    ri,                \* how many elements of RETENTIONS the for loop of line 113 has taken
    R,                 \* the loop variable of line 113 (0 while no retention is being evaluated)
    portfolio_losses,  \* local of run_engine (line 115)
    reinsurer_hits,    \* local of run_engine (line 116)
    total_claims,      \* local of run_engine (line 117)
    drawn,             \* history: the sizes drawn by each completed trial of this retention
    metrics,           \* the metric locals assigned so far for this retention (lines 152-167)
    report,            \* what this call of run_engine has printed (lines 173-179)
    err                \* the exception that left the module, or "none"

vars ==
    <<CLAIM_PROB, RETENTIONS, PREMIUMS, MEAN, STD, pc, scenario, mean, std, mu, sigma,
      ri, R, portfolio_losses, reinsurer_hits, total_claims, drawn, metrics, report, err>>

config == <<CLAIM_PROB, RETENTIONS, PREMIUMS, MEAN, STD>>

\* ------------------------------------------------------------------ bounds

\* Number of Monte Carlo trials per retention level (100000 in the source).
N_SIM == 3

\* Number of policies in the portfolio (200 in the source).
N_POLICIES == 2

\* The claim sizes a lognormal draw with sigma > 0 ranges over: a finite sample
\* of its support, the positive reals, below, at and above the retentions used.
Sizes == {25, 75}

\* ------------------------------------------------------------ float values

\* The amount nan (np.log of a negative mean, and everything computed from it).
NaN == -1000000

Rat(n, d) == [num |-> n, den |-> d]

NaNRat == Rat(0, 0)

IsNaNRat(q) == q.den = 0

\* a <= b on floats: false when either side is nan.
RatLE(a, b) == ~IsNaNRat(a) /\ ~IsNaNRat(b) /\ a.num * b.den <= b.num * a.den

RatEq(a, b) == ~IsNaNRat(a) /\ ~IsNaNRat(b) /\ a.num * b.den = b.num * a.den

RECURSIVE SumSeq(_)
SumSeq(xs) == IF Len(xs) = 0 THEN 0 ELSE Head(xs) + SumSeq(Tail(xs))

HasNaN(xs) == \E i \in DOMAIN xs : xs[i] = NaN

\* ndarray.sum(): nan as soon as one element is nan.
FSum(xs) == IF HasNaN(xs) THEN NaN ELSE SumSeq(xs)

\* -------------------------------------------------------- lognormal_params

\* line 71: std**2 / mean**2 on Python numbers raises ZeroDivisionError for mean = 0.
LognormalParamsRaises(m, s) == m = 0

\* lines 70-74.  sigma2 = ln(1 + std^2/mean^2) and mu = ln(mean) - sigma2/2 are
\* kept exactly through their exponentials: sigma is the rational exp(sigma^2)
\* and mu the rational exp(2 mu) = mean^4 / (mean^2 + std^2).  np.log of a
\* negative mean is nan (a warning, no exception), and so is mu.
lognormal_params(m, s) ==
    [mu    |-> IF m < 0 THEN NaNRat ELSE Rat(m * m * m * m, m * m + s * s),
     sigma |-> Rat(m * m + s * s, m * m)]

\* sigma = 0 exactly when exp(sigma^2) = 1.
SigmaIsZero(sg) == sg.num = sg.den

\* exp(mu) when it is an integer amount (it is when sigma = 0: exp(mu) = mean).
ExpMu(m) ==
    LET q == m.num \div m.den
    IN  CHOOSE a \in 1..q : a * a = q

\* The values one np.random.lognormal(mu, sigma) draw can take (line 131).
LognormalSupport(m, sg) ==
    IF IsNaNRat(m) THEN {NaN}
    ELSE IF SigmaIsZero(sg) THEN {ExpMu(m)}
    ELSE Sizes

\* The values one Bernoulli(CLAIM_PROB) draw can take (line 123).
BernoulliSupport(p) ==
    IF p = 0 THEN {0} ELSE IF p = 100 THEN {1} ELSE {0, 1}

\* --------------------------------------------------------------- one trial

\* Variant: the clamp at zero is lost.
MaximumIdentity(x) == x

\* np.maximum(0, x): nan propagates.
MaximumZero(x) == IF x = NaN THEN NaN ELSE IF x > 0 THEN x ELSE 0

\* Variant: the operands of the subtraction are swapped.
FSubSwapped(x, y) == IF x = NaN THEN NaN ELSE y - x

\* sizes - R on one element: nan propagates.
FSub(x, y) == IF x = NaN THEN NaN ELSE x - y

\* Variant: the retained part min(size, R) is taken for the ceded part.
CededRetained(sizes, r) ==
    [i \in DOMAIN sizes |-> IF sizes[i] = NaN THEN NaN
                            ELSE IF sizes[i] < r THEN sizes[i] ELSE r]

\* line 135: ceded = np.maximum(0, sizes - R)
Ceded(sizes, r) == [i \in DOMAIN sizes |-> MaximumZero(FSub(sizes[i], r))]

\* lines 126-136: ceded_total of a trial with the given draw.
CededTotal(sizes, r) == IF Len(sizes) > 0 THEN FSum(Ceded(sizes, r)) ELSE 0

\* Variant: a claim equal to the retention counts as a trigger.
ExceedsOrEquals(s, r) == s # NaN /\ s >= r

\* line 139: sizes > R, false for nan.
Exceeds(s, r) == s # NaN /\ s > r

\* line 139: np.sum(sizes > R)
HitsIn(sizes, r) == Cardinality({i \in DOMAIN sizes : Exceeds(sizes[i], r)})

\* Variant: the policies without a claim are counted.
CountNonClaims(claims) == Cardinality({i \in DOMAIN claims : claims[i] = 0})

\* line 124: claims.sum()
CountClaims(claims) == Cardinality({i \in DOMAIN claims : claims[i] = 1})

\* ----------------------------------------------------------------- metrics

\* line 152: losses.mean()
MeanLoss(losses) ==
    IF HasNaN(losses) THEN NaNRat ELSE Rat(SumSeq(losses), Len(losses))

\* line 155: losses.std() is the square root of this population variance.
StdLossSq(losses) ==
    IF HasNaN(losses) THEN NaNRat
    ELSE LET n  == Len(losses)
             s1 == SumSeq(losses)
             s2 == SumSeq([i \in DOMAIN losses |-> losses[i] * losses[i]])
         IN  Rat(n * s2 - s1 * s1, n * n)

\* line 158: np.percentile(losses, 99), linear interpolation at the virtual
\* index 0.99 * (n - 1) of the sorted array; nan when an element is nan.
Percentile99(losses) ==
    IF HasNaN(losses) THEN NaNRat
    ELSE LET n      == Len(losses)
             sorted == SortSeq(losses, LAMBDA x, y : x < y)
             pos    == 99 * (n - 1)
             lo     == pos \div 100
             frac   == pos % 100
             hi     == IF lo + 1 <= n - 1 THEN lo + 1 ELSE lo
             a      == sorted[lo + 1]
             b      == sorted[hi + 1]
         IN  Rat(100 * a + (b - a) * frac, 100)

\* Variant: the tail is selected with > in place of >=.
InTailStrict(x, v) == x # NaN /\ RatLE(v, Rat(x, 1)) /\ ~RatEq(v, Rat(x, 1))

\* line 161: the element test of losses >= var_99.
InTail(x, v) == x # NaN /\ RatLE(v, Rat(x, 1))

\* line 161: losses[losses >= var_99]
TailValues(losses, v) == SelectSeq(losses, LAMBDA x : InTail(x, v))

\* line 161: .mean() of the selection; the mean of an empty array is nan.
TVaR(losses, v) ==
    LET tail == TailValues(losses, v)
    IN  IF Len(tail) = 0 THEN NaNRat ELSE Rat(SumSeq(tail), Len(tail))

\* Variant: the division never raises (as numpy scalars would behave).
ProbNeverRaises(hits, total) == FALSE

\* line 164: reinsurer_hits / total_claims raises ZeroDivisionError exactly when
\* total_claims is still the Python int 0 it was initialised to.
ProbRaises(hits, total) == total = 0

\* line 164
ProbReinsurer(hits, total) == Rat(hits, total)

\* Variant: a missing premium defaults to 1 (PREMIUMS.get(r, 1)).
PremiumLookupDefault(table, r) ==
    [raised |-> FALSE, value |-> IF r \in DOMAIN table THEN table[r] ELSE 1]

\* line 167: PREMIUMS[r] yields the premium, or raises KeyError when r is no key.
PremiumLookup(table, r) ==
    IF r \in DOMAIN table
    THEN [raised |-> FALSE, value |-> table[r]]
    ELSE [raised |-> TRUE, value |-> 0]

\* line 167: mean_loss / premium
ValueForMoney(ml, premium) ==
    IF IsNaNRat(ml) THEN NaNRat ELSE Rat(ml.num, ml.den * premium)

\* ----------------------------------------------------------- configuration

\* lines 202: MEAN * 1.08, STD * 1.08 (exact on the amounts used).
Inflate(x) == (x * 108) \div 100

\* The retention levels the configurations use.
RetLevels == {0, 25, 50}

FullPremiums == (0 :> 60) @@ (25 :> 48) @@ (50 :> 38)

Without(table, r) == [k \in (DOMAIN table) \ {r} |-> table[k]]

Cfg(p, rs, prem, m, s) ==
    [CLAIM_PROB |-> p, RETENTIONS |-> rs, PREMIUMS |-> prem, MEAN |-> m, STD |-> s]

\* Configurations with severity parameters inside the engine's input domain
\* (mean > 0, std >= 0).
Configs ==
    {Cfg(p, <<r>>, FullPremiums, 50, 25) : p \in {0, 100}, r \in RetLevels}
    \cup {Cfg(50, <<0>>, FullPremiums, 50, 25)}
    \cup {Cfg(100, <<25, 50>>, FullPremiums, 50, 25)}
    \cup {Cfg(p, rs, FullPremiums, 50, 0) :
            p \in {0, 50, 100}, rs \in {<<25, 50>>, <<50, 25>>, <<0, 50>>}}
    \cup {Cfg(p, <<0, 50>>, Without(FullPremiums, 50), 50, 0) : p \in {0, 50, 100}}
    \cup {Cfg(0, <<50>>, Without(FullPremiums, 50), 50, 25)}

\* Configurations that also leave that domain (mean <= 0).
ParamConfigs ==
    {Cfg(p, rs, FullPremiums, m, s) :
        p \in {0, 50, 100}, rs \in {<<25>>, <<0, 50>>}, m \in {-50, 0}, s \in {0, 25}}
    \cup {Cfg(p, <<0, 50>>, FullPremiums, 50, 0) : p \in {0, 50, 100}}

NoMetrics == <<>>

InitWith(cfgs) ==
    /\ \E c \in cfgs :
        /\ CLAIM_PROB = c.CLAIM_PROB
        /\ RETENTIONS = c.RETENTIONS
        /\ PREMIUMS = c.PREMIUMS
        /\ MEAN = c.MEAN
        /\ STD = c.STD
    /\ pc = "module"
    /\ scenario = 1
    /\ mean = 0
    /\ std = 0
    /\ mu = NaNRat
    /\ sigma = NaNRat
    /\ ri = 0
    /\ R = 0
    /\ portfolio_losses = <<>>
    /\ reinsurer_hits = 0
    /\ total_claims = 0
    /\ drawn = <<>>
    /\ metrics = NoMetrics
    /\ report = <<>>
    /\ err = "none"

Init == InitWith(Configs)

InitParams == InitWith(ParamConfigs)

\* ----------------------------------------------------------------- actions

\* lines 185 and 202 with lines 104-110: the module calls run_engine, which
\* derives (mu, sigma) before its retention loop.
CallRunEngine ==
    /\ pc = "module"
    /\ LET m == IF scenario = 1 THEN MEAN ELSE Inflate(MEAN)
           s == IF scenario = 1 THEN STD ELSE Inflate(STD)
       IN  /\ mean' = m
           /\ std' = s
           /\ IF LognormalParamsRaises(m, s)
              THEN /\ pc' = "raised"
                   /\ err' = "ZeroDivisionError"
                   /\ UNCHANGED <<mu, sigma>>
              ELSE /\ pc' = "for_R"
                   /\ err' = err
                   /\ mu' = lognormal_params(m, s).mu
                   /\ sigma' = lognormal_params(m, s).sigma
    /\ ri' = 0
    /\ report' = <<>>
    /\ UNCHANGED <<config, scenario, R, portfolio_losses, reinsurer_hits, total_claims,
                   drawn, metrics>>

\* lines 113-117: the next retention level starts from empty accumulators.
NextRetention ==
    /\ pc = "for_R"
    /\ ri < Len(RETENTIONS)
    /\ ri' = ri + 1
    /\ R' = RETENTIONS[ri + 1]
    /\ portfolio_losses' = <<>>
    /\ reinsurer_hits' = 0
    /\ total_claims' = 0
    /\ drawn' = <<>>
    /\ metrics' = NoMetrics
    /\ pc' = "trials"
    /\ UNCHANGED <<config, scenario, mean, std, mu, sigma, report, err>>

\* lines 120-143: one pass of the simulation loop.
Trial ==
    /\ pc = "trials"
    /\ Len(portfolio_losses) < N_SIM
    /\ \E claims \in [1..N_POLICIES -> BernoulliSupport(CLAIM_PROB)] :
         LET n_claims == CountClaims(claims)
         IN  \E sizes \in [1..n_claims -> LognormalSupport(mu, sigma)] :
               /\ portfolio_losses' = Append(portfolio_losses, CededTotal(sizes, R))
               /\ IF n_claims > 0
                  THEN /\ reinsurer_hits' = reinsurer_hits + HitsIn(sizes, R)
                       /\ total_claims' = total_claims + n_claims
                  ELSE UNCHANGED <<reinsurer_hits, total_claims>>
               /\ drawn' = Append(drawn, sizes)
    /\ UNCHANGED <<config, pc, scenario, mean, std, mu, sigma, ri, R, metrics, report, err>>

\* lines 145-179: the metrics of the finished loss distribution, in the order
\* the source assigns them; the first statement that raises ends the program.
Metrics ==
    /\ pc = "trials"
    /\ Len(portfolio_losses) = N_SIM
    /\ LET losses   == portfolio_losses
           premium  == PremiumLookup(PREMIUMS, R)
           var_99   == Percentile99(losses)
           upTo161  == [mean_loss   |-> MeanLoss(losses),
                        std_loss_sq |-> StdLossSq(losses),
                        var_99      |-> var_99,
                        tvar_99     |-> TVaR(losses, var_99)]
           upTo164  == upTo161 @@
                       [prob_reinsurer |-> ProbReinsurer(reinsurer_hits, total_claims)]
           upTo167  == upTo164 @@
                       [value_for_money |-> ValueForMoney(upTo161.mean_loss, premium.value)]
       IN  IF ProbRaises(reinsurer_hits, total_claims)
           THEN /\ metrics' = upTo161
                /\ pc' = "raised"
                /\ err' = "ZeroDivisionError"
                /\ report' = report
           ELSE IF premium.raised
           THEN /\ metrics' = upTo164
                /\ pc' = "raised"
                /\ err' = "KeyError"
                /\ report' = report
           ELSE /\ metrics' = upTo167
                /\ report' = Append(report, [R |-> R] @@ upTo167)
                /\ pc' = "for_R"
                /\ err' = err
    /\ UNCHANGED <<config, scenario, mean, std, mu, sigma, ri, R, portfolio_losses,
                   reinsurer_hits, total_claims, drawn>>

\* run_engine returns after the last retention; its locals are gone.
ReturnFromEngine ==
    /\ pc = "for_R"
    /\ ri >= Len(RETENTIONS)
    /\ R' = 0
    /\ pc' = IF scenario = 1 THEN "module" ELSE "done"
    /\ scenario' = scenario + 1
    /\ portfolio_losses' = <<>>
    /\ reinsurer_hits' = 0
    /\ total_claims' = 0
    /\ drawn' = <<>>
    /\ metrics' = NoMetrics
    /\ UNCHANGED <<config, mean, std, mu, sigma, ri, report, err>>

Next ==
    \/ CallRunEngine
    \/ NextRetention
    \/ Trial
    \/ Metrics
    \/ ReturnFromEngine

Spec == Init /\ [][Next]_vars

SpecParams == InitParams /\ [][Next]_vars

\* ------------------------------------------------------------------ claims

RECURSIVE ExcessSum(_, _)
\* The sum over the claim sizes s of max(0, s - r).
ExcessSum(sizes, r) ==
    IF Len(sizes) = 0 THEN 0
    ELSE (IF Head(sizes) - r > 0 THEN Head(sizes) - r ELSE 0) + ExcessSum(Tail(sizes), r)

\* The losses and the trigger count the draws of this retention give at level r.
LossesAt(r) == [k \in DOMAIN drawn |-> CededTotal(drawn[k], r)]

HitsAt(r) == SumSeq([k \in DOMAIN drawn |-> HitsIn(drawn[k], r)])

DistinctValues(xs) == {xs[i] : i \in DOMAIN xs}

\* No line of the report is about the retention now being evaluated.
NotReported == \A i \in DOMAIN report : report[i].R # R

\* C1: every trial with at least one claim appends the sum over its claim sizes
\* s of max(0, s - R); the entry is never negative and never exceeds the sum of
\* the trial's claim sizes.
C1_CededTotalIsExcessSum ==
    \A k \in DOMAIN drawn :
        Len(drawn[k]) > 0 =>
            /\ k \in DOMAIN portfolio_losses
            /\ portfolio_losses[k] = ExcessSum(drawn[k], R)
            /\ portfolio_losses[k] >= 0
            /\ portfolio_losses[k] <= SumSeq(drawn[k])

C1_Witness ==
    \E k \in DOMAIN drawn :
        /\ Len(drawn[k]) = 2
        /\ R > 0
        /\ \E i \in DOMAIN drawn[k] : drawn[k][i] <= R
        /\ portfolio_losses[k] > 0
        /\ portfolio_losses[k] < SumSeq(drawn[k])

\* C2 as stated: of two retentions R1 <= R2 reported by one call of run_engine,
\* the one for R2 reports an Expected Ceded Loss and a P(Reinsurer Pays) no
\* greater than the one for R1.
C2_ReportedMonotone ==
    \A i, j \in DOMAIN report :
        report[i].R <= report[j].R =>
            /\ RatLE(report[j].mean_loss, report[i].mean_loss)
            /\ RatLE(report[j].prob_reinsurer, report[i].prob_reinsurer)

\* C2 as amended: on the same drawn trials, raising the retention from R to any
\* r2 >= R gives, trial by trial, a ceded total no greater, hence an Expected
\* Ceded Loss and a P(Reinsurer Pays) no greater than those computed for R (and
\* lowering it gives values no smaller).
C2_SameDrawsMonotone ==
    \A r2 \in RetLevels :
        (Len(drawn) > 0 /\ r2 >= R) =>
            /\ \A k \in DOMAIN drawn : LossesAt(r2)[k] <= portfolio_losses[k]
            /\ HitsAt(r2) <= reinsurer_hits
            /\ RatLE(MeanLoss(LossesAt(r2)), MeanLoss(portfolio_losses))
            /\ "mean_loss" \in DOMAIN metrics =>
                   RatLE(MeanLoss(LossesAt(r2)), metrics.mean_loss)
            /\ "prob_reinsurer" \in DOMAIN metrics =>
                   RatLE(ProbReinsurer(HitsAt(r2), total_claims), metrics.prob_reinsurer)

C2_Witness ==
    /\ R = 0
    /\ "prob_reinsurer" \in DOMAIN metrics
    /\ ~RatLE(metrics.mean_loss, MeanLoss(LossesAt(25)))
    /\ HitsAt(25) < reinsurer_hits
    /\ HitsAt(25) > 0
    /\ \E k \in DOMAIN drawn : LossesAt(25)[k] > 0

\* C3: the values averaged for TVaR 99% are never none, and for a loss
\* distribution with more than one distinct value VaR 99% <= TVaR 99%.
C3_VaRLeTVaR ==
    "tvar_99" \in DOMAIN metrics =>
        /\ Len(TailValues(portfolio_losses, metrics.var_99)) > 0
        /\ ~IsNaNRat(metrics.tvar_99)
        /\ Cardinality(DistinctValues(portfolio_losses)) > 1 =>
               RatLE(metrics.var_99, metrics.tvar_99)

C3_Witness ==
    /\ "tvar_99" \in DOMAIN metrics
    /\ Cardinality(DistinctValues(portfolio_losses)) = N_SIM
    /\ RatLE(metrics.var_99, metrics.tvar_99)
    /\ ~RatEq(metrics.var_99, metrics.tvar_99)
    /\ metrics.var_99.num % metrics.var_99.den # 0

\* C4: when no claim was observed in the N_SIM trials of a retention (as with
\* CLAIM_PROB = 0), computing P(Reinsurer Pays) raises the division error: no
\* value, nan or zero, is assigned to it and nothing is reported for the retention.
C4_ZeroClaimsRaises ==
    /\ (CLAIM_PROB = 0 => total_claims = 0)
    /\ (metrics # NoMetrics /\ total_claims = 0) =>
            /\ pc = "raised"
            /\ err = "ZeroDivisionError"
            /\ "prob_reinsurer" \notin DOMAIN metrics
            /\ NotReported
    /\ \A i \in DOMAIN report : report[i].prob_reinsurer.den > 0

C4_Witness ==
    /\ CLAIM_PROB = 0
    /\ Len(portfolio_losses) = N_SIM
    /\ pc = "raised"
    /\ err = "ZeroDivisionError"
    /\ "tvar_99" \in DOMAIN metrics

\* C5 as stated: evaluating a retention that has no entry in PREMIUMS raises the
\* missing-premium error (KeyError), and no Value for Money is assigned or reported.
C5_MissingPremiumRaises ==
    (metrics # NoMetrics /\ R \notin DOMAIN PREMIUMS) =>
        /\ pc = "raised"
        /\ err = "KeyError"
        /\ "value_for_money" \notin DOMAIN metrics
        /\ NotReported

\* C5 as amended: evaluating a retention that has no entry in PREMIUMS raises:
\* the missing-premium error (KeyError) when at least one claim was observed, the
\* division error of P(Reinsurer Pays), computed first, when none was; either
\* way no Value for Money is assigned or reported for that retention.
C5_MissingPremiumOrDivision ==
    (metrics # NoMetrics /\ R \notin DOMAIN PREMIUMS) =>
        /\ pc = "raised"
        /\ err = (IF total_claims = 0 THEN "ZeroDivisionError" ELSE "KeyError")
        /\ "value_for_money" \notin DOMAIN metrics
        /\ NotReported

C5_Witness ==
    /\ R \notin DOMAIN PREMIUMS
    /\ err = "KeyError"
    /\ "prob_reinsurer" \in DOMAIN metrics
    /\ Len(report) = 1

\* C6: with mean <= 0 lognormal_params raises, so run_engine never reaches its
\* retention loop and no (mu, sigma) is derived from that mean.
C6_NonPositiveMeanRaises ==
    (pc # "module" /\ mean <= 0) => (pc = "raised" /\ ri = 0)

\* C7: with R = 0 the ceded amount of every claim is the full claim size, every
\* observed claim counts as a trigger, and P(Reinsurer Pays) is exactly 1 as soon
\* as one claim was observed.
C7_ZeroRetention ==
    (R = 0 /\ Len(drawn) > 0) =>
        /\ \A k \in DOMAIN drawn :
              /\ \A i \in DOMAIN drawn[k] : Ceded(drawn[k], R)[i] = drawn[k][i]
              /\ portfolio_losses[k] = SumSeq(drawn[k])
        /\ reinsurer_hits = total_claims
        /\ (metrics # NoMetrics /\ total_claims > 0) =>
              /\ "prob_reinsurer" \in DOMAIN metrics
              /\ metrics.prob_reinsurer.num = metrics.prob_reinsurer.den

C7_Witness ==
    /\ R = 0
    /\ "prob_reinsurer" \in DOMAIN metrics
    /\ metrics.prob_reinsurer = Rat(total_claims, total_claims)
    /\ \E k \in DOMAIN drawn : Len(drawn[k]) = 0
    /\ \E k \in DOMAIN drawn : Len(drawn[k]) = 2 /\ portfolio_losses[k] = SumSeq(drawn[k])

\* The step of a trial in which no policy claims.
ZeroClaimTrial ==
    /\ Len(drawn') = Len(drawn) + 1
    /\ Len(drawn'[Len(drawn')]) = 0

\* C9: a trial in which no policy claims appends exactly 0 and leaves both
\* counters as they were; with CLAIM_PROB = 0 every entry of the loss
\* distribution is 0 and Expected Ceded Loss = VaR 99% = TVaR 99% = 0.
C9_ZeroClaimTrial ==
    /\ [][ZeroClaimTrial =>
            /\ portfolio_losses' = Append(portfolio_losses, 0)
            /\ reinsurer_hits' = reinsurer_hits
            /\ total_claims' = total_claims]_vars
    /\ [](CLAIM_PROB = 0 =>
            /\ \A k \in DOMAIN portfolio_losses : portfolio_losses[k] = 0
            /\ \A k \in DOMAIN drawn : Len(drawn[k]) = 0
            /\ metrics # NoMetrics =>
                  /\ Len(portfolio_losses) = N_SIM
                  /\ metrics.mean_loss.num = 0 /\ metrics.mean_loss.den > 0
                  /\ metrics.var_99.num = 0 /\ metrics.var_99.den > 0
                  /\ metrics.tvar_99.num = 0 /\ metrics.tvar_99.den > 0)

C9_Witness ==
    /\ Len(drawn) = N_SIM
    /\ Len(drawn[1]) > 0
    /\ Len(drawn[N_SIM]) = 0
    /\ portfolio_losses[N_SIM] = 0
    /\ portfolio_losses[1] > 0
    /\ reinsurer_hits > 0
    /\ total_claims = SumSeq([k \in 1..(N_SIM - 1) |-> Len(drawn[k])])

\* C10: each retention starts from an empty loss distribution and zero counters;
\* after k completed trials the loss distribution has k entries, total_claims is
\* the number of claims of those trials, reinsurer_hits the number of them
\* strictly greater than R, so 0 <= reinsurer_hits <= total_claims; the metrics
\* are computed from exactly N_SIM entries.
C10_Bookkeeping ==
    /\ Len(portfolio_losses) = Len(drawn)
    /\ Len(portfolio_losses) <= N_SIM
    /\ total_claims = SumSeq([k \in DOMAIN drawn |-> Len(drawn[k])])
    /\ reinsurer_hits =
          Cardinality({ki \in (DOMAIN drawn) \X (1..N_POLICIES) :
                          /\ ki[2] <= Len(drawn[ki[1]])
                          /\ drawn[ki[1]][ki[2]] > R})
    /\ 0 <= reinsurer_hits
    /\ reinsurer_hits <= total_claims
    /\ metrics # NoMetrics => Len(portfolio_losses) = N_SIM
    /\ (pc = "trials" /\ Len(drawn) = 0) =>
          (portfolio_losses = <<>> /\ reinsurer_hits = 0 /\ total_claims = 0)

C10_Witness ==
    /\ ri = 2
    /\ Len(report) = 2
    /\ Len(portfolio_losses) = N_SIM
    /\ 0 < reinsurer_hits
    /\ reinsurer_hits < total_claims
    /\ report[2].prob_reinsurer = Rat(reinsurer_hits, total_claims)
    /\ report[1].prob_reinsurer.num # reinsurer_hits

====
